---- MODULE Spec2Model ----
(***************************************************************************)
(* Model of parse_pdf (src/app.py): the per-page table scan that builds    *)
(* vocabulary records {Word, Definition, Frequency, Years, Year_Str} with  *)
(* the cross-row "pending word" merge.                                     *)
(*                                                                         *)
(* A string is a sequence of characters; a character is a one-character    *)
(* string, or "U+XXXX" for a non-ASCII code point.  Python's None is the   *)
(* value None below, which is no string of characters.                     *)
(***************************************************************************)
EXTENDS Integers, Sequences, FiniteSets, TLC

None == <<"None">>

(***************************************************************************)
(* Character classes of the regular expressions                            *)
(***************************************************************************)
LowerCase == <<"a","b","c","d","e","f","g","h","i","j","k","l","m",
               "n","o","p","q","r","s","t","u","v","w","x","y","z">>
UpperCase == <<"A","B","C","D","E","F","G","H","I","J","K","L","M",
               "N","O","P","Q","R","S","T","U","V","W","X","Y","Z">>
DigitChars == <<"0","1","2","3","4","5","6","7","8","9">>

Range(f) == {f[i] : i \in DOMAIN f}

Alpha == Range(LowerCase) \cup Range(UpperCase)
Digits == Range(DigitChars)
\* \s, and what str.strip() strips
Whitespace == {" ", "\t", "\n"}
\* the ideographs in use, all within U+4E00..U+9FFF:
\* U+901A U+9053 (a definition's text), U+51FA U+73FE U+6B21 U+6578 (the
\* occurrence-count label), U+7F29 U+5199 / U+7E2E U+5BEB ("abbreviation")
CJK == {"U+901A", "U+9053", "U+51FA", "U+73FE", "U+6B21", "U+6578",
        "U+7F29", "U+5199", "U+7E2E", "U+5BEB"}
\* U+2019 is the curly apostrophe, U+FF1A the full-width colon
PureWordChars == Alpha \cup Whitespace \cup {"-", ".", "'", "U+2019"}
LooseWordChars == PureWordChars \cup Digits
NoiseChars == Digits \cup Whitespace \cup {"~"}
\* \w of a str pattern: letters (ideographs included), digits, underscore
WordClass == Alpha \cup Digits \cup CJK \cup {"_"}

ToLower(c) == IF c \in Range(UpperCase)
              THEN LowerCase[CHOOSE i \in DOMAIN UpperCase : UpperCase[i] = c]
              ELSE c

DigitVal(c) == (CHOOSE i \in DOMAIN DigitChars : DigitChars[i] = c) - 1

\* int(s) of a string of decimal digits
RECURSIVE IntOf(_)
IntOf(s) == IF s = <<>> THEN 0
            ELSE 10 * IntOf(SubSeq(s, 1, Len(s) - 1)) + DigitVal(s[Len(s)])

\* str(n) of a non-negative integer
RECURSIVE StrOf(_)
StrOf(n) == IF n < 10 THEN <<DigitChars[n + 1]>>
            ELSE StrOf(n \div 10) \o <<DigitChars[(n % 10) + 1]>>

(***************************************************************************)
(* String helpers                                                          *)
(***************************************************************************)
\* the least index >= i of s that holds no whitespace (Len(s)+1 if none): \s*
RECURSIVE SkipWs(_, _)
SkipWs(s, i) == IF i > Len(s) \/ s[i] \notin Whitespace THEN i
                ELSE SkipWs(s, i + 1)

\* the literal lit stands in s at index i
LitAt(s, i, lit) == /\ i >= 1
                    /\ i + Len(lit) - 1 <= Len(s)
                    /\ \A k \in 1..Len(lit) : s[i + k - 1] = lit[k]

\* the same under re.IGNORECASE (lit is in lower case)
LitAtNoCase(s, i, lit) == /\ i >= 1
                          /\ i + Len(lit) - 1 <= Len(s)
                          /\ \A k \in 1..Len(lit) : ToLower(s[i + k - 1]) = lit[k]

\* str.strip()
Strip(s) ==
    LET keep == {i \in 1..Len(s) : s[i] \notin Whitespace}
    IN  IF keep = {} THEN <<>>
        ELSE SubSeq(s, CHOOSE i \in keep : \A j \in keep : i <= j,
                       CHOOSE i \in keep : \A j \in keep : i >= j)

\* str(cell).replace('\n', ' ').strip() if cell is not None else ""
CleanCell(cell) ==
    IF cell = None THEN <<>>
    ELSE Strip([i \in 1..Len(cell) |-> IF cell[i] = "\n" THEN " " ELSE cell[i]])

CleanRow(raw) == [i \in 1..Len(raw) |-> CleanCell(raw[i])]

\* " ".join(row)
RECURSIVE Join(_)
Join(row) == IF row = <<>> THEN <<>>
             ELSE IF Len(row) = 1 THEN row[1]
             ELSE row[1] \o <<" ">> \o Join(Tail(row))

(***************************************************************************)
(* The patterns                                                            *)
(***************************************************************************)
\* the alternatives of pos_pattern
PosAlts == { <<"v",".">>, <<"n",".">>, <<"a","d","j",".">>, <<"a","d","v",".">>,
             <<"p","r","e","p",".">>, <<"c","o","n","j",".">>,
             <<"p","r","o","n",".">>, <<"a","u","x",".">>, <<"a","r","t",".">>,
             <<"n","u","m",".">>, <<"i","n","t",".">>, <<"p","l",".">>,
             <<"U+7F29","U+5199">>, <<"U+7E2E","U+5BEB">> }

\* pos_pattern matches at index i of s:  \[ \s* (alt)
PosMatchAt(s, i) == /\ s[i] = "["
                    /\ \E alt \in PosAlts : LitAtNoCase(s, SkipWs(s, i + 1), alt)

\* re.search(pos_pattern, cell, re.IGNORECASE): match.start() (0-based) of the
\* leftmost match, -1 when there is none
PosSearch(s) ==
    LET hits == {i \in 1..Len(s) : PosMatchAt(s, i)}
    IN  IF hits = {} THEN -1
        ELSE (CHOOSE i \in hits : \A j \in hits : i <= j) - 1

\* re.match(r"^[a-zA-Z\s\-\.\'\u2019]+$", s)
IsPureWord(s) == Len(s) > 0 /\ \A i \in 1..Len(s) : s[i] \in PureWordChars

\* re.match(r"^[a-zA-Z\s\-\.\'\u20190-9]+$", s)
IsLooseWord(s) == Len(s) > 0 /\ \A i \in 1..Len(s) : s[i] \in LooseWordChars

\* re.match(r'^[\d\s~]+$', s)
IsNumericNoise(s) == Len(s) > 0 /\ \A i \in 1..Len(s) : s[i] \in NoiseChars

\* re.search(r'[\u4e00-\u9fff]', s)
HasCJK(s) == \E i \in 1..Len(s) : s[i] \in CJK

\* "Level" in s
HasLevel(s) == \E i \in 1..Len(s) : LitAt(s, i, <<"L","e","v","e","l">>)

(***************************************************************************)
(* Frequency of a page: the label U+51FA U+73FE U+6B21 U+6578, \s*, a     *)
(* colon (':' or U+FF1A), \s*, (\d+)                                      *)
(***************************************************************************)
FreqLabel == <<"U+51FA", "U+73FE", "U+6B21", "U+6578">>

\* the index of the first digit of group 1 if the pattern matches at i, else 0
FreqGroupAt(s, i) ==
    IF ~LitAt(s, i, FreqLabel) THEN 0
    ELSE LET c == SkipWs(s, i + Len(FreqLabel))
         IN  IF c > Len(s) \/ s[c] \notin {":", "U+FF1A"} THEN 0
             ELSE LET d == SkipWs(s, c + 1)
                  IN  IF d > Len(s) \/ s[d] \notin Digits THEN 0 ELSE d

\* the longest run of digits of s from index i: (\d+)
RECURSIVE DigitRun(_, _)
DigitRun(s, i) == IF i > Len(s) \/ s[i] \notin Digits THEN <<>>
                  ELSE <<s[i]>> \o DigitRun(s, i + 1)

\* re.search(...) on the text and int(freq_match.group(1)); 0 without a match
ExtractFrequency(text) ==
    LET hits == {i \in 1..Len(text) : FreqGroupAt(text, i) > 0}
    IN  IF hits = {} THEN 0
        ELSE LET first == CHOOSE i \in hits : \A j \in hits : i <= j
             IN  IntOf(DigitRun(text, FreqGroupAt(text, first)))

(***************************************************************************)
(* Years of a row:  re.findall(r'\b(0[5-9]|1[0-4])\b', full_row_text)      *)
(***************************************************************************)
\* \b before index p of s (p = Len(s)+1: at the end)
IsWordAt(s, p) == p >= 1 /\ p <= Len(s) /\ s[p] \in WordClass
Boundary(s, p) == IsWordAt(s, p - 1) # IsWordAt(s, p)

\* a year pattern without its leading \b
YearTokenNoLeftBoundary(s, i) ==
    /\ i + 1 <= Len(s)
    /\ \/ s[i] = "0" /\ s[i + 1] \in {"5", "6", "7", "8", "9"}
       \/ s[i] = "1" /\ s[i + 1] \in {"0", "1", "2", "3", "4"}
    /\ Boundary(s, i + 2)

YearTokenAt(s, i) ==
    /\ i + 1 <= Len(s)
    /\ Boundary(s, i)
    /\ \/ s[i] = "0" /\ s[i + 1] \in {"5", "6", "7", "8", "9"}
       \/ s[i] = "1" /\ s[i + 1] \in {"0", "1", "2", "3", "4"}
    /\ Boundary(s, i + 2)

\* findall scans left to right and resumes after each match
RECURSIVE FindYears(_, _)
FindYears(s, i) ==
    IF i > Len(s) THEN <<>>
    ELSE IF YearTokenAt(s, i)
         THEN <<SubSeq(s, i, i + 1)>> \o FindYears(s, i + 2)
         ELSE FindYears(s, i + 1)

\* sorted(list(set(xs)))
RECURSIVE SortedOfSet(_)
SortedOfSet(S) ==
    IF S = {} THEN <<>>
    ELSE LET m == CHOOSE x \in S : \A y \in S : x <= y
         IN  <<m>> \o SortedOfSet(S \ {m})

\* years_list of lines 123-125
YearsOf(full_row_text) ==
    LET years_found == FindYears(full_row_text, 1)
    IN  SortedOfSet({IntOf(years_found[k]) + 100 : k \in DOMAIN years_found})

\* ", ".join(map(str, years_list)) if years_list else "-"
RECURSIVE JoinYears(_)
JoinYears(ys) == IF Len(ys) = 1 THEN StrOf(ys[1])
                 ELSE StrOf(ys[1]) \o <<",", " ">> \o JoinYears(Tail(ys))

YearStr(years_list) == IF years_list = <<>> THEN <<"-">> ELSE JoinYears(years_list)

(***************************************************************************)
(* The body of the row loop (lines 61-135) as functions of the cleaned row *)
(***************************************************************************)
\* a search that keeps the last cell holding an anchor
DefIndexLast(row) ==
    LET hits == {i \in 1..Len(row) : PosSearch(row[i]) >= 0}
    IN  IF hits = {} THEN -1
        ELSE (CHOOSE i \in hits : \A j \in hits : i >= j) - 1

\* A (lines 72-85): def_index, the 0-based index of the first cell that holds
\* an anchor, -1 when no cell does
DefIndex(row) ==
    LET hits == {i \in 1..Len(row) : PosSearch(row[i]) >= 0}
    IN  IF hits = {} THEN -1
        ELSE (CHOOSE i \in hits : \A j \in hits : i <= j) - 1

\* a split that does not test the text left of the anchor
SplitCellUnchecked(cell) ==
    LET start == PosSearch(cell)
    IN  IF start > 2
        THEN [word |-> Strip(SubSeq(cell, 1, start)),
              definition |-> Strip(SubSeq(cell, start + 1, Len(cell)))]
        ELSE [word |-> <<>>, definition |-> cell]

\* A (lines 77-84): word and definition taken from the anchor cell
SplitCell(cell) ==
    LET start == PosSearch(cell)
        raw_word == Strip(SubSeq(cell, 1, start))
        raw_def == Strip(SubSeq(cell, start + 1, Len(cell)))
    IN  IF start > 2
        THEN IF IsPureWord(raw_word)
             THEN [word |-> raw_word, definition |-> raw_def]
             ELSE [word |-> <<>>, definition |-> <<>>]
        ELSE [word |-> <<>>, definition |-> cell]

\* B (lines 93-95): the left-scan test of one candidate cell
LeftAccepts(candidate) ==
    /\ ~HasLevel(candidate)
    /\ candidate # <<>>
    /\ IsLooseWord(candidate)
    /\ ~IsNumericNoise(candidate)

\* a left scan that runs from the first cell of the row towards the anchor
ScanLeftFirst(row, j) ==
    LET hits == {k \in 0..j : LeftAccepts(row[k + 1])}
    IN  IF hits = {} THEN <<>>
        ELSE row[(CHOOSE k \in hits : \A m \in hits : k <= m) + 1]

\* B (lines 91-97): for j in range(def_index - 1, -1, -1); j is 0-based
RECURSIVE ScanLeft(_, _)
ScanLeft(row, j) ==
    IF j < 0 THEN <<>>
    ELSE IF LeftAccepts(row[j + 1]) THEN row[j + 1]
         ELSE ScanLeft(row, j - 1)

\* C (lines 109-115): the test of one cell of a row without an anchor
PendingAccepts(cell) ==
    /\ cell # <<>>
    /\ ~HasLevel(cell)
    /\ ~IsNumericNoise(cell)
    /\ ~HasCJK(cell)
    /\ IsPureWord(cell)
    /\ Len(cell) > 1

\* C (lines 107-117): the first accepted cell from index i on, None if none
RECURSIVE ScanPending(_, _)
ScanPending(row, i) ==
    IF i > Len(row) THEN None
    ELSE IF PendingAccepts(row[i]) THEN row[i]
         ELSE ScanPending(row, i + 1)

\* a row body that never takes the pending word
UsesPendingNever(word, pending) == FALSE

\* B (lines 100-102): the pending word is taken when the row gave no word
UsesPending(word, pending) == word = <<>> /\ pending # None

\* an emission test that forgets the definition
EmitsWordOnly(word, definition) == word # <<>>

\* D (line 120): if word and definition
Emits(word, definition) == word # <<>> /\ definition # <<>>

\* D (lines 122-133): the record appended
MakeRecord(row, word, definition, freq) ==
    LET years_list == YearsOf(Join(row))
    IN  [Word |-> word, Definition |-> definition, Frequency |-> freq,
         Years |-> years_list, Year_Str |-> YearStr(years_list)]

\* lines 61-135 on one raw row: the word and definition resolved, whether a
\* record is appended, the record, and the pending word left behind
RowBody(raw, pending, freq) ==
    LET row == CleanRow(raw)
        def_index == DefIndex(row)
        a == IF def_index >= 0 THEN SplitCell(row[def_index + 1])
             ELSE [word |-> <<>>, definition |-> <<>>]
        left == IF def_index >= 0 /\ a.word = <<>>
                THEN ScanLeft(row, def_index - 1) ELSE a.word
        consumed == def_index >= 0 /\ UsesPending(left, pending)
        word == IF consumed THEN pending ELSE left
        pendB == IF consumed THEN None ELSE pending
        pendC == IF def_index < 0 /\ word = <<>> /\ a.definition = <<>>
                 THEN LET found == ScanPending(row, 1)
                      IN  IF found # None THEN found ELSE pendB
                 ELSE pendB
        emit == Emits(word, a.definition)
    IN  [row |-> row, def_index |-> def_index, word |-> word,
         definition |-> a.definition, consumed |-> consumed, emit |-> emit,
         record |-> MakeRecord(row, word, a.definition, freq),
         pending |-> IF emit THEN None ELSE pendC]

(***************************************************************************)
(* Inputs: what the extraction library hands over                          *)
(***************************************************************************)
\* bounds of the documents explored
MaxPages == 2
MaxTables == 2
MaxRows == 3
MaxCols == 3

\* raw cells as extract_tables returns them (None for an empty cell)
cGo == <<"g","o">>
cUp == <<"u","p">>
cA == <<"a">>
cLoose == <<"A","1","0">>
cLevel == <<"L","e","v","e","l">>
cYears == <<"1","0","~","0","5"," ","1","0"," ","1","5">>
cDef == <<"["," ","N",".","]","U+901A">>
cDef2 == <<"1",".","[","v",".","]">>
cSplit == <<"M","r",".","\n","[","a","d","j",".","]","x">>
cRej == <<"0","5"," ","[","n",".","]">>
cLevelDef == <<"L","e","v","e","l"," ","[","n",".","]">>

Cells == {None, cGo, cA, cLoose, cLevel, cYears, cDef, cDef2, cSplit, cRej,
          cLevelDef}

\* every raw row of at most MaxCols cells
Rows == UNION {[1..n -> Cells] : n \in 0..MaxCols}

\* the rows of the documents parsed page by page
DocRows == { <<cGo>>, <<cUp, cYears>>, <<cDef>>, <<cYears, cGo, cDef>>,
             <<cRej>>, <<cYears, None>> }

\* page texts as extract_text returns them (None for a page without text):
\* the label without a colon, and two counts
tNear == FreqLabel \o <<" ","8">>
tTwo == <<"g","o","\n">> \o FreqLabel \o <<" ",":"," ","8","\n">>
            \o FreqLabel \o <<"U+FF1A","1","2">>

Texts == {None, tNear, tTwo}

\* what the extraction library can raise
Errors == {<<"E","1">>, <<"E","2">>}

(***************************************************************************)
(* State                                                                   *)
(***************************************************************************)
VARIABLES
    pc,            \* position in parse_pdf
    total_pages,   \* len(pdf.pages)
    p_idx,         \* index of the page of the page loop
    text,          \* page.extract_text() or ""
    page,          \* the number of tables each strategy finds on the page
    source,        \* the strategy whose tables are scanned
    tables,        \* len(tables)
    t_idx,         \* index of the table of the table loop
    row,           \* the row of the row loop: raw when drawn, cleaned after
    pending_word,
    current_freq,
    data,
    debug_logs,
    result,        \* the pair returned: the records and the trace
    fetched        \* rows drawn so far from the tables of the document

vars == <<pc, total_pages, p_idx, text, page, source, tables, t_idx, row,
          pending_word, current_freq, data, debug_logs, result, fetched>>

Init ==
    /\ pc = "start"
    /\ total_pages = 0
    /\ p_idx = 0
    /\ text = <<>>
    /\ page = [stream |-> 0, grid |-> 0]
    /\ source = "none"
    /\ tables = 0
    /\ t_idx = 0
    /\ row = <<>>
    /\ pending_word = None
    /\ current_freq = 0
    /\ data = <<>>
    /\ debug_logs = <<>>
    /\ result = [df |-> <<>>, logs |-> <<>>]
    /\ fetched = 0

(***************************************************************************)
(* parse_pdf                                                               *)
(***************************************************************************)
\* parse_pdf has returned: its loop variables are gone, the list it built
\* is kept beside what it returned
Returned ==
    /\ pc' = "done"
    /\ total_pages' = 0
    /\ p_idx' = 0
    /\ text' = <<>>
    /\ page' = [stream |-> 0, grid |-> 0]
    /\ source' = "none"
    /\ tables' = 0
    /\ t_idx' = 0
    /\ row' = <<>>
    /\ pending_word' = None
    /\ current_freq' = 0
    /\ debug_logs' = <<>>
    /\ UNCHANGED <<data, fetched>>

\* line 26: return pd.DataFrame(), [the missing-file message]
MissingResult == [df |-> <<>>, logs |-> << <<"missing", <<>> >> >>]

\* an error return that hands over the records accumulated so far
ErrorResultPartial(e) == [df |-> data, logs |-> << <<"error", e>> >>]

\* line 140: return pd.DataFrame(), [the message holding str(e)]
ErrorResult(e) == [df |-> <<>>, logs |-> << <<"error", e>> >>]

\* lines 25-26: the file does not exist
NotFound ==
    /\ pc = "start"
    /\ result' = MissingResult
    /\ Returned

\* lines 29-31: the document opens with n pages
Open(n) ==
    /\ pc = "start"
    /\ total_pages' = n
    /\ debug_logs' = Append(debug_logs, <<"pages", StrOf(n)>>)
    /\ p_idx' = 0
    /\ pc' = "pages"
    /\ UNCHANGED <<text, page, source, tables, t_idx, row, pending_word,
                   current_freq, data, result, fetched>>

\* lines 139-140: pdfplumber.open, extract_text or extract_tables raises e
Raise(e) ==
    /\ \/ pc = "start"
       \/ pc = "pages" /\ p_idx < total_pages
    /\ result' = ErrorResult(e)
    /\ Returned

\* a selection that tries the default strategy first
SelectTablesGridFirst(stream, grid) ==
    IF grid > 0 THEN [source |-> "grid", tables |-> grid]
    ELSE IF stream > 0 THEN [source |-> "stream", tables |-> stream]
    ELSE [source |-> "none", tables |-> 0]

\* a selection that falls back to the lines of the text as one table
SelectTablesLineFallback(stream, grid) ==
    IF stream > 0 THEN [source |-> "stream", tables |-> stream]
    ELSE IF grid > 0 THEN [source |-> "grid", tables |-> grid]
    ELSE [source |-> "lines", tables |-> 1]

\* lines 43-51: the text strategy first, the default strategy if it found none
SelectTables(stream, grid) ==
    IF stream > 0 THEN [source |-> "stream", tables |-> stream]
    ELSE IF grid > 0 THEN [source |-> "grid", tables |-> grid]
    ELSE [source |-> "none", tables |-> 0]

\* a pending slot that is not reset when the scan of a page begins
StalePending == pending_word

\* line 57: pending_word = None
FreshPending == None

\* a frequency that is not reset when the page's text has no match
PageFrequencyCarry(t) ==
    IF \E i \in 1..Len(t) : FreqGroupAt(t, i) > 0
    THEN ExtractFrequency(t) ELSE current_freq

\* lines 37-40: current_freq = 0; if freq_match: current_freq = int(...)
PageFrequency(t) == ExtractFrequency(t)

\* lines 33-57: the head of the page loop, for a page with text t on which
\* the text strategy finds `stream` tables and the default strategy `grid`
PageStart(t, stream, grid) ==
    LET sel == SelectTables(stream, grid)
    IN  /\ pc = "pages"
        /\ p_idx < total_pages
        /\ text' = (IF t = None THEN <<>> ELSE t)
        /\ current_freq' = PageFrequency(text')
        /\ page' = [stream |-> stream, grid |-> grid]
        /\ source' = sel.source
        /\ tables' = sel.tables
        /\ IF sel.tables = 0
           THEN \* lines 53-54: continue
                /\ p_idx' = p_idx + 1
                /\ pc' = "pages"
                /\ UNCHANGED <<t_idx, pending_word>>
           ELSE /\ pending_word' = FreshPending
                /\ t_idx' = 0
                /\ pc' = "rows"
                /\ UNCHANGED p_idx
        /\ UNCHANGED <<total_pages, row, data, debug_logs, result, fetched>>

\* line 60: the table yields its next row
FetchRow(r) ==
    /\ pc = "rows"
    /\ fetched < MaxRows
    /\ row' = r
    /\ fetched' = fetched + 1
    /\ pc' = "row"
    /\ UNCHANGED <<total_pages, p_idx, text, page, source, tables, t_idx,
                   pending_word, current_freq, data, debug_logs, result>>

\* a row loop that passes over the rows of fewer than 2 cells
ProcessRowSkipNarrow ==
    LET b == RowBody(row, pending_word, current_freq)
        skip == Len(row) < 2
    IN  /\ pc = "row"
        /\ row' = b.row
        /\ data' = (IF b.emit /\ ~skip THEN Append(data, b.record) ELSE data)
        /\ pending_word' = (IF skip THEN pending_word ELSE b.pending)
        /\ pc' = "rows"
        /\ UNCHANGED <<total_pages, p_idx, text, page, source, tables, t_idx,
                       current_freq, debug_logs, result, fetched>>

\* a row loop that keeps only the first record of each Word
ProcessRowDedup ==
    LET b == RowBody(row, pending_word, current_freq)
        seen == \E i \in DOMAIN data : data[i].Word = b.record.Word
    IN  /\ pc = "row"
        /\ row' = b.row
        /\ data' = (IF b.emit /\ ~seen THEN Append(data, b.record) ELSE data)
        /\ pending_word' = b.pending
        /\ pc' = "rows"
        /\ UNCHANGED <<total_pages, p_idx, text, page, source, tables, t_idx,
                       current_freq, debug_logs, result, fetched>>

\* a row loop that clears the pending word only when the record used it
ProcessRowKeepPending ==
    LET b == RowBody(row, pending_word, current_freq)
    IN  /\ pc = "row"
        /\ row' = b.row
        /\ data' = (IF b.emit THEN Append(data, b.record) ELSE data)
        /\ pending_word' = (IF b.emit /\ ~b.consumed THEN pending_word
                            ELSE b.pending)
        /\ pc' = "rows"
        /\ UNCHANGED <<total_pages, p_idx, text, page, source, tables, t_idx,
                       current_freq, debug_logs, result, fetched>>

\* a row loop in which a row without an anchor keeps an existing pending word
ProcessRowNoOverwrite ==
    LET b == RowBody(row, pending_word, current_freq)
    IN  /\ pc = "row"
        /\ row' = b.row
        /\ data' = (IF b.emit THEN Append(data, b.record) ELSE data)
        /\ pending_word' = (IF b.def_index < 0 /\ pending_word # None
                            THEN pending_word ELSE b.pending)
        /\ pc' = "rows"
        /\ UNCHANGED <<total_pages, p_idx, text, page, source, tables, t_idx,
                       current_freq, debug_logs, result, fetched>>

\* lines 61-135: the body of the row loop
ProcessRow ==
    LET b == RowBody(row, pending_word, current_freq)
    IN  /\ pc = "row"
        /\ row' = b.row
        /\ data' = (IF b.emit THEN Append(data, b.record) ELSE data)
        /\ pending_word' = b.pending
        /\ pc' = "rows"
        /\ UNCHANGED <<total_pages, p_idx, text, page, source, tables, t_idx,
                       current_freq, debug_logs, result, fetched>>

\* lines 59-60: the table is exhausted: the next table, or the next page
EndTable ==
    /\ pc = "rows"
    /\ IF t_idx + 1 < tables
       THEN t_idx' = t_idx + 1 /\ UNCHANGED <<p_idx, pc>>
       ELSE p_idx' = p_idx + 1 /\ pc' = "pages" /\ UNCHANGED t_idx
    /\ UNCHANGED <<total_pages, text, page, source, tables, row, pending_word,
                   current_freq, data, debug_logs, result, fetched>>

\* lines 137-142: the page loop is over
Finish ==
    /\ pc = "pages"
    /\ p_idx = total_pages
    /\ result' = [df |-> data,
                  logs |-> Append(debug_logs, <<"done", StrOf(Len(data))>>)]
    /\ Returned

Next ==
    \/ NotFound
    \/ \E n \in 0..MaxPages : Open(n)
    \/ \E e \in Errors : Raise(e)
    \/ \E t \in Texts, stream \in 0..MaxTables, grid \in 0..MaxTables :
          PageStart(t, stream, grid)
    \/ \E r \in DocRows : FetchRow(r)
    \/ ProcessRow
    \/ EndTable
    \/ Finish

Spec == Init /\ [][Next]_vars

(***************************************************************************)
(* The row body alone, on every row of at most MaxCols cells: a page with  *)
(* tables has been entered, the pending word is empty or was set by an     *)
(* earlier row, and the next row has been drawn                            *)
(***************************************************************************)
RowInit ==
    /\ pc = "row"
    /\ total_pages = 1
    /\ p_idx = 0
    /\ text \in {<<>>, tTwo}
    /\ page = [stream |-> 1, grid |-> 0]
    /\ source = "stream"
    /\ tables = 1
    /\ t_idx = 0
    /\ row \in Rows
    /\ pending_word \in {None, cUp}
    /\ current_freq = ExtractFrequency(text)
    /\ data = <<>>
    /\ debug_logs = << <<"pages", StrOf(1)>> >>
    /\ result = [df |-> <<>>, logs |-> <<>>]
    /\ fetched = (IF pending_word = None THEN 1 ELSE 2)

RowNext == ProcessRow

RowSpec == RowInit /\ [][RowNext]_vars

(***************************************************************************)
(* Properties                                                              *)
(***************************************************************************)
Last(s) == s[Len(s)]

\* the step is the body of the row loop
RowStep == pc = "row" /\ pc' = "rows"
\* the body of the row loop appended a record
Appended == Len(data') = Len(data) + 1 /\ SubSeq(data', 1, Len(data)) = data

\* the cleaned row holds no anchor
NoAnchor(r) == \A i \in 1..Len(r) : PosSearch(r[i]) < 0
\* index i is the first anchor cell of the cleaned row r
FirstAnchor(r, i) == /\ i \in 1..Len(r)
                     /\ PosSearch(r[i]) >= 0
                     /\ \A j \in 1..(i - 1) : PosSearch(r[j]) < 0
\* cell i of r is the leftmost pure-English word cell that may become pending
FirstPendingCell(r, i) == /\ i \in 1..Len(r)
                          /\ PendingAccepts(r[i])
                          /\ \A j \in 1..(i - 1) : ~PendingAccepts(r[j])

\* C1: cross-row merge. A row without an anchor whose leftmost acceptable
\* pure-English cell is W leaves pending = W and appends nothing; drawing the
\* next row leaves pending alone; and a row whose first anchor cell starts at
\* offset <= 2, with no acceptable word cell to its left, processed while a
\* word W is pending, appends the record (Word = W, Definition = that cell)
\* and leaves the pending slot empty.
C1_CrossRowMerge ==
    [][LET r == CleanRow(row)
       IN  /\ RowStep =>
                /\ \A i \in 1..Len(r) :
                      (NoAnchor(r) /\ FirstPendingCell(r, i)) =>
                          pending_word' = r[i] /\ data' = data
                /\ \A i \in 1..Len(r) :
                      ( /\ pending_word # None
                        /\ FirstAnchor(r, i)
                        /\ PosSearch(r[i]) <= 2
                        /\ \A j \in 1..(i - 1) : ~LeftAccepts(r[j]) ) =>
                          /\ Appended
                          /\ Last(data').Word = pending_word
                          /\ Last(data').Definition = r[i]
                          /\ pending_word' = None
           /\ (pc = "rows" /\ pc' = "row") => pending_word' = pending_word
      ]_vars

\* the two rows ["go"], ["[ N.]..."] of one page have been processed: one
\* record, whose word is in no cell of the second row
C1_Witness ==
    /\ pc = "rows"
    /\ fetched = 2
    /\ row = <<CleanCell(cDef)>>
    /\ Len(data) = 1
    /\ data[1].Word = cGo
    /\ data[1].Definition = CleanCell(cDef)
    /\ data[1].Years = <<>>
    /\ pending_word = None

\* C2: the pending word never crosses a page boundary: whenever the scan of
\* a page's tables begins, the pending slot is empty, whatever the earlier
\* pages left in it, and it stays so until the page's first row is processed.
C2_PendingPerPage ==
    [][ /\ (pc = "pages" /\ pc' = "rows") => pending_word' = None
        /\ (pc = "rows" /\ pc' = "row") => pending_word' = pending_word
      ]_vars

\* page 0 ended after its only row ["go"] set the pending word; the scan of
\* page 1 has begun with the slot empty
C2_Witness ==
    /\ pc = "rows"
    /\ p_idx = 1
    /\ fetched = 1
    /\ row = <<cGo>>
    /\ data = <<>>
    /\ pending_word = None

\* C3: every record accumulated, and every record returned, has a non-empty
\* Word and a non-empty Definition.
C3_RecordsComplete ==
    /\ \A i \in DOMAIN data : data[i].Word # <<>> /\ data[i].Definition # <<>>
    /\ \A i \in DOMAIN result.df :
          result.df[i].Word # <<>> /\ result.df[i].Definition # <<>>

C3_Witness ==
    /\ pc = "done"
    /\ Len(result.df) = 2
    /\ result.df[1].Word # result.df[2].Word

\* C4: every record appended while a page is scanned carries the count of
\* the first label match of that page's text (8 for the text with the two
\* counts 8 and 12), and 0 when the text has no match, whatever the earlier
\* pages stated and whichever strategy gave the tables.
C4_FrequencySticky ==
    [][(RowStep /\ Appended) =>
          Last(data').Frequency = (IF text = tTwo THEN 8 ELSE 0)]_vars

\* a record of count 8 from one page, then a record of count 0 from a later
\* page without the label whose tables came from the default strategy
C4_Witness ==
    /\ pc = "rows"
    /\ Len(data) = 2
    /\ data[1].Frequency = 8
    /\ data[2].Frequency = 0
    /\ p_idx = 1
    /\ source = "grid"
    /\ text = tNear

\* C5, as claimed: a page on which the grid-based extraction finds a table
\* is scanned from the grid-based tables, and the text-stream tables are
\* scanned only when the grid-based extraction finds none.
C5_GridFirst ==
    pc \in {"rows", "row"} =>
        /\ page.grid > 0 => source = "grid" /\ tables = page.grid
        /\ source = "stream" => page.grid = 0

\* C5, amended: the text-stream extraction is tried first and, if it finds
\* a table, its tables are the ones scanned; the grid-based (default)
\* extraction is used only when the text-stream extraction finds none.
C5_StreamFirst ==
    pc \in {"rows", "row"} =>
        /\ page.stream > 0 => source = "stream" /\ tables = page.stream
        /\ source = "grid" => page.stream = 0 /\ page.grid > 0 /\ tables = page.grid
        /\ source \in {"stream", "grid"}

\* both strategies find tables on the page, in different numbers
C5_Witness ==
    /\ pc = "row"
    /\ page.stream = 1
    /\ page.grid = 2
    /\ source = "stream"
    /\ tables = 1

\* C6, as claimed: only a page with no extractable text is passed over
\* without a scan; a page with text and no table is scanned.
C6_TextPageScanned ==
    [][(pc = "pages" /\ pc' = "pages" /\ p_idx' = p_idx + 1) => text' = <<>>]_vars

\* C6, amended: a page on which both table strategies find no table is
\* passed over whatever its text: no record is appended and the scan moves
\* to the next page.
C6_NoTablesSkipped ==
    [][(pc = "pages" /\ pc' # "done" /\ page'.stream = 0 /\ page'.grid = 0) =>
          /\ data' = data
          /\ pc' = "pages"
          /\ p_idx' = p_idx + 1
          /\ pending_word' = pending_word]_vars

\* a page with text and no table has been passed over, after a page that
\* gave a record
C6_Witness ==
    /\ pc = "pages"
    /\ p_idx = 2
    /\ text = tTwo
    /\ page = [stream |-> 0, grid |-> 0]
    /\ Len(data) = 1

\* C7: parse_pdf returns in every case; when it returns otherwise than from
\* the end of the page loop (the file is missing, or the extraction raised
\* at the opening or on a page), it returns no record, even if records were
\* accumulated, and a trace of one line: the missing-file message or the
\* message holding the failure; from the end of the page loop it returns all
\* the records accumulated.
C7_ErrorBoundary ==
    [][pc' = "done" =>
          IF pc = "pages" /\ p_idx = total_pages
          THEN result'.df = data
          ELSE /\ result'.df = <<>>
               /\ Len(result'.logs) = 1
               /\ \/ pc = "start" /\ result'.logs[1] = <<"missing", <<>> >>
                  \/ result'.logs[1][1] = "error" /\ result'.logs[1][2] \in Errors
      ]_vars

\* the extraction raised E2 after a record had been accumulated
C7_Witness ==
    /\ pc = "done"
    /\ data # <<>>
    /\ result = [df |-> <<>>, logs |-> << <<"error", <<"E","2">> >> >>]

\* value of the two characters of s at i when both are digits, else -1
TwoDigitValue(s, i) ==
    IF i + 1 <= Len(s) /\ s[i] \in Digits /\ s[i + 1] \in Digits
    THEN 10 * DigitVal(s[i]) + DigitVal(s[i + 1]) ELSE -1

\* the years stated by the text s: y + 100 for every two-digit token y of
\* value 5..14 with a word boundary on both sides
YearSet(s) ==
    {TwoDigitValue(s, i) + 100 : i \in {k \in 1..Len(s) :
        /\ TwoDigitValue(s, k) \in 5..14
        /\ ~IsWordAt(s, k - 1)
        /\ ~IsWordAt(s, k + 2)}}

\* C8: the Years of an appended record are exactly the years stated by the
\* space-joined text of its row, as a strictly increasing list, each within
\* 105..114.
C8_Years ==
    (pc = "rows" /\ data # <<>>) =>
        LET ys == Last(data).Years
        IN  /\ Range(ys) = YearSet(Join(row))
            /\ \A i \in 1..(Len(ys) - 1) : ys[i] < ys[i + 1]
            /\ \A i \in 1..Len(ys) : ys[i] \in 105..114

\* a row whose text states 10, 05, 10 and 15, and A10
C8_Witness ==
    /\ pc = "rows"
    /\ data # <<>>
    /\ Last(data).Years = <<105, 110>>
    /\ \E i \in 1..Len(row) : row[i] = cLoose
    /\ \E i \in 1..Len(row) : row[i] = cYears

\* C9, as claimed: the Word of every record holds only letters, hyphens,
\* straight or curly apostrophes and spaces, and has length at least 2.
C9_WordShape ==
    \A i \in DOMAIN data :
        /\ Len(data[i].Word) >= 2
        /\ \A k \in 1..Len(data[i].Word) :
              data[i].Word[k] \in Alpha \cup {"-", "'", "U+2019", " "}

\* C9, amended: the Word of every record holds only letters, digits,
\* periods, hyphens, straight or curly apostrophes and whitespace, has
\* length at least 1 with no whitespace at either end, and is not made of
\* digits and whitespace alone.
C9_WordShapeLoose ==
    \A i \in DOMAIN data :
        LET w == data[i].Word
        IN  /\ Len(w) >= 1
            /\ \A k \in 1..Len(w) :
                  w[k] \in Alpha \cup Digits \cup Whitespace \cup {".", "-", "'", "U+2019"}
            /\ w[1] \notin Whitespace /\ w[Len(w)] \notin Whitespace
            /\ \E k \in 1..Len(w) : w[k] \notin Digits \cup Whitespace

\* a record whose Word "A10" holds digits, from a row that also holds "a"
C9_Witness ==
    /\ data # <<>>
    /\ data[1].Word = cLoose
    /\ \E i \in 1..Len(row) : row[i] = cA

\* C10: a row whose first anchor sits at offset > 2 of its cell, after text
\* that is no pure-English word, appends a record whose Definition is the
\* whole cell whenever a word is pending or a cell to the left is accepted
\* as a word.
C10_RejectedSplit ==
    [][LET r == CleanRow(row)
       IN  RowStep =>
             \A i \in 1..Len(r) :
                ( /\ FirstAnchor(r, i)
                  /\ PosSearch(r[i]) > 2
                  /\ ~IsPureWord(Strip(SubSeq(r[i], 1, PosSearch(r[i]))))
                  /\ \/ pending_word # None
                     \/ \E j \in 1..(i - 1) : LeftAccepts(r[j]) ) =>
                    Appended /\ Last(data').Definition = r[i]
      ]_vars

\* the cell is noise: digits, whitespace and '~' only, or it holds "Level"
Noisy(c) == IsNumericNoise(c) \/ HasLevel(c)

\* C11: a noise cell never supplies the Word or the Definition of a record,
\* nor the pending word: a row that appends a record takes its definition
\* from a cell that is no noise cell and its Word is no noise cell of the
\* row (a split takes both from the definition cell), and the pending word
\* left behind is no noise cell.
C11_NoiseRejected ==
    [][LET r == CleanRow(row)
       IN  RowStep =>
             /\ Appended =>
                   /\ \A i \in 1..Len(r) : FirstAnchor(r, i) => ~Noisy(r[i])
                   /\ \A i \in 1..Len(r) : Noisy(r[i]) => Last(data').Word # r[i]
             /\ pending_word' # None => ~Noisy(pending_word')
      ]_vars

\* C12, as claimed: a row of fewer than 2 cells appends no record and leaves
\* the pending word and the record list unchanged.
C12_NarrowSkipped ==
    [][(RowStep /\ Len(row) < 2) =>
          data' = data /\ pending_word' = pending_word]_vars

\* C12, amended: only a row without any cell is without effect. A row of
\* one cell is processed like any other: it appends a record when its cell
\* splits into a word and a definition, or when its cell is a definition
\* whose anchor starts at offset <= 2 and a word is pending, and it sets the
\* pending word when its cell is an acceptable pure-English word.
C12_NarrowProcessed ==
    [][LET r == CleanRow(row)
       IN  /\ (RowStep /\ Len(r) = 0) =>
                data' = data /\ pending_word' = pending_word
           /\ (RowStep /\ Len(r) = 1) =>
                LET start == PosSearch(r[1])
                    left == Strip(SubSeq(r[1], 1, start))
                IN  /\ (start > 2 /\ IsPureWord(left)) =>
                          /\ Appended
                          /\ Last(data').Word = left
                          /\ pending_word' = None
                    /\ (start >= 0 /\ start <= 2 /\ pending_word # None) =>
                          /\ Appended
                          /\ Last(data').Word = pending_word
                          /\ Last(data').Definition = r[1]
                          /\ pending_word' = None
                    /\ (start < 0 /\ PendingAccepts(r[1])) =>
                          data' = data /\ pending_word' = r[1]
      ]_vars

\* the one-cell row ["Mr. [adj.]x"] has appended a record
C12_Witness ==
    /\ pc = "rows"
    /\ row = <<CleanCell(cSplit)>>
    /\ Len(data) = 1
    /\ data[1].Word = <<"M","r",".">>
    /\ pending_word = None

\* C13: records are kept in insertion order and never deduplicated. Pages
\* are visited in increasing order and the tables of a page in increasing
\* order; a row only ever appends at the end of the list, every other step
\* leaves the list alone, and the list is returned as it stands; a row that
\* resolves a word (an accepted cell left of its definition cell, whose
\* anchor starts at offset <= 2) appends its record, with the years of its
\* own row and the frequency of its own page, even when a record of the
\* same Word is already in the list.
C13_InsertionOrder ==
    [][LET r == CleanRow(row)
       IN  /\ pc' # "done" =>
                /\ p_idx' >= p_idx
                /\ (p_idx' = p_idx /\ pc # "pages") => t_idx' >= t_idx
           /\ RowStep => (data' = data \/ Appended)
           /\ ~RowStep => data' = data
           /\ (pc = "pages" /\ p_idx = total_pages /\ pc' = "done") =>
                result'.df = data
           /\ RowStep =>
                \A i \in 1..Len(r) :
                   ( /\ FirstAnchor(r, i)
                     /\ PosSearch(r[i]) <= 2
                     /\ \E j \in 1..(i - 1) : LeftAccepts(r[j]) ) =>
                       /\ Appended
                       /\ Last(data').Definition = r[i]
                       /\ Last(data').Years = YearsOf(Join(r))
                       /\ Last(data').Frequency = current_freq
      ]_vars

\* two records of the same Word returned in the order of their pages, each
\* with its own years and frequency
C13_Witness ==
    /\ pc = "done"
    /\ Len(result.df) = 2
    /\ result.df[1].Word = cGo
    /\ result.df[2].Word = cGo
    /\ result.df[1].Years = <<105, 110>>
    /\ result.df[2].Years = <<>>
    /\ result.df[1].Frequency = 8
    /\ result.df[2].Frequency = 0

\* C15: pending is empty after every emission. Immediately after any row
\* that appends a record the pending word is empty, also when the Word of
\* the record came from the row itself (split or left cell) while an older
\* pending word was outstanding: the older word is discarded.
C15_PendingClearedOnEmit ==
    [][(RowStep /\ Appended) => pending_word' = None]_vars

\* a row processed while "up" was pending gave a record whose Word is its
\* own left cell, and pending is empty afterwards
C15_Witness ==
    /\ pc = "rows"
    /\ fetched = 2
    /\ row = <<cGo, CleanCell(cDef)>>
    /\ Len(data) = 1
    /\ data[1].Word = cGo
    /\ pending_word = None

\* C16: first anchor wins, one record per row. A row appends at most one
\* record; the Definition of that record is the leftmost cell holding an
\* anchor (the whole cell when the anchor starts at offset <= 2, its stripped
\* suffix from the anchor on when the split is accepted); when the leftmost
\* anchor cell yields no definition (rejected split) the row appends nothing,
\* whatever anchor cells stand further right.
C16_FirstAnchorWins ==
    [][LET r == CleanRow(row)
       IN  RowStep =>
             /\ data' = data \/ Appended
             /\ \A i \in 1..Len(r) : FirstAnchor(r, i) =>
                   LET start == PosSearch(r[i])
                       left == Strip(SubSeq(r[i], 1, start))
                       suffix == Strip(SubSeq(r[i], start + 1, Len(r[i])))
                   IN  /\ (Appended /\ start <= 2) =>
                              Last(data').Definition = r[i]
                       /\ (Appended /\ start > 2) =>
                              Last(data').Definition = suffix
                       /\ (start > 2 /\ ~IsPureWord(left)) => data' = data
      ]_vars

\* a row with two anchor cells gave one record, its Definition the left one
C16_Witness ==
    /\ pc = "rows"
    /\ row = <<cDef2, CleanCell(cDef)>>
    /\ Len(data) = 1
    /\ data[1].Word = cUp
    /\ data[1].Definition = cDef2

\* C17: word-source priority in a row with an anchor. (a) A word split out
\* of the anchor cell is the Word. (b) Otherwise, when a cell strictly left
\* of the definition cell is accepted by the left scan, the Word of the
\* record is the nearest such cell and the pending word is not touched unless
\* a record is appended. (c) The pending word is taken, and cleared, only
\* when neither gives a word; (d) with no source at all nothing is appended.
C17_WordPriority ==
    [][LET r == CleanRow(row)
       IN  RowStep =>
             \A i \in 1..Len(r) : FirstAnchor(r, i) =>
                LET start == PosSearch(r[i])
                    left == Strip(SubSeq(r[i], 1, start))
                    split == start > 2 /\ IsPureWord(left)
                    near == {j \in 1..(i - 1) :
                               /\ LeftAccepts(r[j])
                               /\ \A k \in (j + 1)..(i - 1) : ~LeftAccepts(r[k])}
                IN  /\ split => Appended /\ Last(data').Word = left
                    /\ (~split /\ near # {}) =>
                          /\ Appended => \A j \in near : Last(data').Word = r[j]
                          /\ start <= 2 => Appended
                          /\ ~Appended => pending_word' = pending_word
                    /\ (~split /\ near = {} /\ pending_word # None) =>
                          /\ pending_word' = None
                          /\ Appended => Last(data').Word = pending_word
                          /\ start <= 2 => Appended
                    /\ (~split /\ near = {} /\ pending_word = None) =>
                          data' = data /\ pending_word' = None
      ]_vars

\* with "up" pending and two accepted cells left of the definition cell, the
\* Word of the record is the nearer one
C17_Witness ==
    /\ pc = "rows"
    /\ fetched = 2
    /\ row = <<cGo, cA, CleanCell(cDef)>>
    /\ Len(data) = 1
    /\ data[1].Word = cA
    /\ data[1].Definition = CleanCell(cDef)

\* the cell may become the pending word: non-empty, without "Level", not
\* digits/whitespace/"~" only, without a CJK ideograph, a pure-English word
\* of more than one character
Qualifies(c) ==
    /\ c # <<>>
    /\ ~HasLevel(c)
    /\ ~(\A k \in 1..Len(c) : c[k] \in NoiseChars)
    /\ ~(\E k \in 1..Len(c) : c[k] \in CJK)
    /\ \A k \in 1..Len(c) : c[k] \in PureWordChars
    /\ Len(c) > 1

\* C18: rows without an anchor. Such a row never appends a record; it sets
\* pending to its leftmost qualifying cell, overwriting any earlier pending
\* word; when no cell qualifies the pending word is left unchanged; drawing
\* the next row and moving to the next table of the same page leave the
\* pending word alone.
C18_NoAnchorRow ==
    [][LET r == CleanRow(row)
       IN  /\ (RowStep /\ NoAnchor(r)) =>
                /\ data' = data
                /\ \A i \in 1..Len(r) :
                      (Qualifies(r[i]) /\ \A j \in 1..(i - 1) : ~Qualifies(r[j]))
                         => pending_word' = r[i]
                /\ (\A i \in 1..Len(r) : ~Qualifies(r[i]))
                         => pending_word' = pending_word
           /\ (pc = "rows" /\ pc' \in {"row", "rows"}) =>
                pending_word' = pending_word
      ]_vars

\* "up" set in the first table of a page survived a row of noise and the
\* change of table, and was attached to a definition in the second table
C18_Witness ==
    /\ pc = "rows"
    /\ t_idx = 1
    /\ fetched = 3
    /\ row = <<CleanCell(cDef)>>
    /\ Len(data) = 1
    /\ data[1].Word = cUp
    /\ data[1].Years = <<>>
    /\ pending_word = None

\* C19: no silent loss of a pending word. A row that clears an outstanding
\* pending word appends a record, and when the row has no word of its own
\* (no accepted split, no accepted left cell) the Word of that record is the
\* pending word.
C19_NoSilentLoss ==
    [][LET r == CleanRow(row)
       IN  (RowStep /\ pending_word # None /\ pending_word' = None) =>
              /\ Appended
              /\ \A i \in 1..Len(r) :
                    ( /\ FirstAnchor(r, i)
                      /\ ~(PosSearch(r[i]) > 2
                           /\ IsPureWord(Strip(SubSeq(r[i], 1, PosSearch(r[i])))))
                      /\ \A j \in 1..(i - 1) : ~LeftAccepts(r[j]) )
                       => Last(data').Word = pending_word
      ]_vars

====
